---------------------------- MODULE Spec2Model ----------------------------
(***************************************************************************)
(* Model of the mdns command (src/mdns.go): the bootstrap enumeration      *)
(* query, the receive loop that routes each datagram either to the         *)
(* enumeration driver (follow-up queries, deduplicated) or to the record   *)
(* assembler (one output line), and the goroutine that closes the socket   *)
(* when the context is done.                                               *)
(*                                                                         *)
(* Go strings are TLA+ strings; Len, \o and SubSeq act on them character   *)
(* by character.                                                           *)
(***************************************************************************)
EXTENDS Integers, Sequences, FiniteSets, TLC

(***************************************************************************)
(* Bounds of the model.                                                    *)
(***************************************************************************)
\* number of arriving datagrams that are counted; only Quiet ones follow them
MaxRecv == 2
\* dns.Id() and the Id of an arriving message range over 0..MaxId
MaxId == 1

\* default of the -timeout flag, in seconds
DefaultTimeout == 2

(***************************************************************************)
(* package strings, fmt: the functions query uses.                         *)
(***************************************************************************)
Char(s, k) == SubSeq(s, k, k)

HasSuffix(s, suffix) ==
    /\ Len(suffix) <= Len(s)
    /\ SubSeq(s, Len(s) - Len(suffix) + 1, Len(s)) = suffix

\* strings.TrimSuffix
TrimSuffix(s, suffix) ==
    IF HasSuffix(s, suffix) THEN SubSeq(s, 1, Len(s) - Len(suffix)) ELSE s

RECURSIVE TrimLeft(_, _)
TrimLeft(s, c) ==
    IF Len(s) > 0 /\ Char(s, 1) = c THEN TrimLeft(SubSeq(s, 2, Len(s)), c) ELSE s

RECURSIVE TrimRight(_, _)
TrimRight(s, c) ==
    IF Len(s) > 0 /\ Char(s, Len(s)) = c
    THEN TrimRight(SubSeq(s, 1, Len(s) - 1), c) ELSE s

\* strings.Trim with a cutset of one character: both ends are stripped
Trim(s, c) == TrimRight(TrimLeft(s, c), c)

\* index of the first occurrence of the character c in s at or after k, 0 if none
RECURSIVE IndexFrom(_, _, _)
IndexFrom(s, c, k) ==
    IF k > Len(s) THEN 0
    ELSE IF Char(s, k) = c THEN k
    ELSE IndexFrom(s, c, k + 1)

\* strings.Split with a separator of one character; Split("", c) = <<"">>
RECURSIVE Split(_, _)
Split(s, c) ==
    LET k == IndexFrom(s, c, 1)
    IN  IF k = 0 THEN <<s>>
        ELSE <<SubSeq(s, 1, k - 1)>> \o Split(SubSeq(s, k + 1, Len(s)), c)

\* the verb %d of fmt, for a non-negative integer
RECURSIVE Itoa(_)
Itoa(n) ==
    IF n < 10 THEN Char("0123456789", n + 1)
    ELSE Itoa(n \div 10) \o Char("0123456789", (n % 10) + 1)

\* the verb %x without padding
RECURSIVE Hex(_)
Hex(n) ==
    IF n < 16 THEN Char("0123456789abcdef", n + 1)
    ELSE Hex(n \div 16) \o Char("0123456789abcdef", (n % 16) + 1)

RECURSIVE Join(_, _)
Join(parts, sep) ==
    IF Len(parts) = 0 THEN ""
    ELSE IF Len(parts) = 1 THEN parts[1]
    ELSE parts[1] \o sep \o Join(Tail(parts), sep)

\* net.IP.String of a 4-byte address
IP4String(b) == Join([k \in 1..4 |-> Itoa(b[k])], ".")

\* number of consecutive zero groups of g starting at k
RECURSIVE ZeroRun(_, _)
ZeroRun(g, k) ==
    IF k > Len(g) \/ g[k] # 0 THEN 0 ELSE 1 + ZeroRun(g, k + 1)

\* net.IP.String of a 16-byte address given as 8 groups of 16 bits: the
\* first longest run of two or more zero groups is written "::"
IP6String(g) ==
    LET best == CHOOSE k \in 1..8 :
                    \A j \in 1..8 : \/ ZeroRun(g, j) < ZeroRun(g, k)
                                    \/ (ZeroRun(g, j) = ZeroRun(g, k) /\ k <= j)
        run  == ZeroRun(g, best)
        hex  == [k \in 1..8 |-> Hex(g[k])]
    IN  IF run < 2 THEN Join(hex, ":")
        ELSE Join(SubSeq(hex, 1, best - 1), ":") \o "::"
             \o Join(SubSeq(hex, best + run, 8), ":")

(***************************************************************************)
(* dns.RR values, as msg.Unpack delivers them.                             *)
(***************************************************************************)
PTR(name, ptr) ==
    [Type |-> "PTR", Name |-> name, Ptr |-> ptr, Target |-> "", Port |-> 0, IP |-> <<>>]
SRV(name, target, port) ==
    [Type |-> "SRV", Name |-> name, Ptr |-> "", Target |-> target, Port |-> port, IP |-> <<>>]
A(name, ip) ==
    [Type |-> "A", Name |-> name, Ptr |-> "", Target |-> "", Port |-> 0, IP |-> ip]
AAAA(name, ip) ==
    [Type |-> "AAAA", Name |-> name, Ptr |-> "", Target |-> "", Port |-> 0, IP |-> ip]
TXT(name) ==
    [Type |-> "TXT", Name |-> name, Ptr |-> "", Target |-> "", Port |-> 0, IP |-> <<>>]


(***************************************************************************)
(* Names and datagrams of the model.  A datagram is what conn.ReadFrom     *)
(* delivers: the sender's address and the bytes, given by what msg.Unpack  *)
(* makes of them (ok = FALSE: Unpack returns an error).                    *)
(***************************************************************************)
EnumName == "_services._dns-sd._udp.local."
HttpType == "_http._tcp.local."
IppType == "_ipp._tcp.local."
SshType == "_ssh._tcp.local."

IDs == 0..MaxId
NoId == -1

Senders == {"192.168.1.9:5353"}

Sections ==
    { \* no record at all
      <<  <<>>, <<>>  >>,
      \* the same service type twice in one response
      <<  <<PTR(EnumName, HttpType), PTR(EnumName, HttpType)>>, <<>>  >>,
      \* every record kind, pointers in both sections
      <<  <<PTR(EnumName, HttpType), A("printer.local.", <<192, 168, 1, 5>>),
            PTR(EnumName, IppType)>>,
          <<PTR(EnumName, SshType), SRV("x._ipp._tcp.local.", "scan.local.", 80),
            TXT("x._ipp._tcp.local."),
            AAAA("printer.local.", <<65152, 0, 0, 0, 0, 0, 0, 1>>)>>  >>,
      \* one service instance
      <<  <<PTR(HttpType, "My Printer._http._tcp.local."),
            SRV("My Printer._http._tcp.local.", "printer.local.", 631),
            A("printer.local.", <<192, 168, 1, 5>>)>>, <<>>  >>,
      \* address and text records only
      <<  <<A("printer.local.", <<192, 168, 1, 5>>)>>,
          <<TXT("My Printer._http._tcp.local.")>>  >> }

Decodable ==
    { [ok |-> TRUE, Id |-> id, Answer |-> s[1], Extra |-> s[2],
       addr |-> "192.168.1.5:5353"] : id \in IDs, s \in Sections }

Malformed ==
    { [ok |-> FALSE, Id |-> 0, Answer |-> <<>>, Extra |-> <<>>, addr |-> a] :
        a \in Senders }

Datagrams == Decodable \cup Malformed

\* subject names of PTR records for the record assembler
Subjects ==
    { "_http._tcp.local.", "_http_._tcp.local.", "__ipp._tcp.local.",
      "_tcp.local.", "_sub._http._tcp.local.", "_http._tcp.example.",
      "http.tcp.local.", "_http._tcp.LOCAL." }

\* responses to follow-up queries for the record assembler
AsmSections ==
    \* a single PTR record
    { <<  <<PTR(s, "x." \o s)>>, <<>>  >> : s \in Subjects }
    \cup
    { \* two PTR and two SRV records, the later PTR with four components
      <<  <<PTR(HttpType, "My Printer._http._tcp.local."),
            SRV("My Printer._http._tcp.local.", "printer.local.", 631)>>,
          <<PTR("_sub._http._tcp.local.", "Other._sub._http._tcp.local."),
            SRV("Other._sub._http._tcp.local.", "scan.local.", 80)>>  >>,
      \* a PTR with two components before one with three
      <<  <<PTR("_tcp.local.", "a._tcp.local."),
            PTR(IppType, "b._ipp._tcp.local.")>>, <<>>  >>,
      \* two PTR with three components
      <<  <<PTR(IppType, "b._ipp._tcp.local.")>>,
          <<PTR(HttpType, "c._http._tcp.local.")>>  >>,
      \* the same PTR and SRV without and with address and text records
      <<  <<PTR(HttpType, "My Printer._http._tcp.local."),
            SRV("My Printer._http._tcp.local.", "printer.local.", 631)>>, <<>>  >>,
      <<  <<A("printer.local.", <<192, 168, 1, 5>>),
            PTR(HttpType, "My Printer._http._tcp.local."),
            TXT("My Printer._http._tcp.local."),
            SRV("My Printer._http._tcp.local.", "printer.local.", 631)>>,
          <<AAAA("printer.local.", <<65152, 0, 0, 0, 0, 0, 0, 1>>),
            A("printer.local.", <<192, 168, 1, 5>>)>>  >>,
      <<  <<PTR(HttpType, "My Printer._http._tcp.local."),
            AAAA("printer.local.", <<8193, 3512, 0, 0, 0, 0, 0, 7>>),
            SRV("My Printer._http._tcp.local.", "printer.local.", 631)>>,
          <<A("printer.local.", <<10, 0, 0, 7>>)>>  >>,
      \* address and text records only, and no record
      <<  <<A("printer.local.", <<192, 168, 1, 5>>)>>,
          <<TXT("My Printer._http._tcp.local.")>>  >>,
      <<  <<>>, <<>>  >> }

\* they carry an Id other than that of the bootstrap query of AsmInit
AsmDatagrams ==
    { [ok |-> TRUE, Id |-> 1, Answer |-> s[1], Extra |-> s[2],
       addr |-> "192.168.1.5:5353"] : s \in AsmSections }

NoMsg == [ok |-> FALSE, Id |-> 0, Answer |-> <<>>, Extra |-> <<>>, addr |-> ""]

(***************************************************************************)
(* State.                                                                  *)
(***************************************************************************)
VARIABLES
    timeout,          \* the -timeout flag
    ctxDone,          \* ctx.Done() is closed (the deadline has passed)
    closed,           \* conn.Close() has been called
    gpc,              \* where the goroutine running query stands
    wpc,              \* where the goroutine of lines 46-49 stands
    servicesQueryID,  \* ID of the bootstrap query
    services,         \* the map services, as the set of its keys
    msg,              \* the datagram of this turn of the loop, NoMsg between turns
    i,                \* index of the answer the loop of line 88 is at
    err,              \* the error value in scope, "nil" between turns
    ret,              \* what query returned, "running" before it returns
    sent,             \* queries written to the socket, in order
    out,              \* lines written to standard output, in order
    logs,             \* lines written to the log, in order
    nread,            \* number of datagrams read, counted up to MaxRecv
    targets,          \* history: rr.Ptr of the PTR answers of the enumeration
                      \* responses read
    nonEnum           \* history: the sections of the other decodable datagrams
                      \* read, in order

vars == <<timeout, ctxDone, closed, gpc, wpc, servicesQueryID, services, msg, i,
          err, ret, sent, out, logs, nread, targets, nonEnum>>

\* what only the context and the second goroutine change
ctxVars == <<timeout, ctxDone, closed, wpc>>
\* what only ReadDatagram changes
history == <<nread, targets, nonEnum>>

Init ==
    /\ timeout \in {0, DefaultTimeout}
    /\ ctxDone = FALSE
    /\ closed = FALSE
    /\ gpc = "listen"
    /\ wpc = "none"
    /\ servicesQueryID = NoId
    /\ services = {}
    /\ msg = NoMsg
    /\ i = 0
    /\ err = "nil"
    /\ ret = "running"
    /\ sent = <<>>
    /\ out = <<>>
    /\ logs = <<>>
    /\ nread = 0
    /\ targets = {}
    /\ nonEnum = <<>>

(***************************************************************************)
(* The pieces of query.                                                    *)
(***************************************************************************)
\* the multicast groups of lines 22-23
mdnsAddr4 == "224.0.0.251:5353"
mdnsAddr6 == "[ff02::fb]:5353"

\* NewQuery that asks for the enumeration name whatever name it is given
NewQueryWrongName(id, name) ==
    [Id |-> id, Name |-> "_services._dns-sd._udp.local.", Qtype |-> "PTR",
     Qclass |-> 1 + 32768, dst |-> "224.0.0.251:5353"]

\* NewQuery without the unicast-response bit, sent to the IPv6 group
NewQueryNoUnicast(id, name) ==
    [Id |-> id, Name |-> name, Qtype |-> "PTR", Qclass |-> 1, dst |-> mdnsAddr6]

\* the query message of lines 52-59 and 97-104 and where WriteTo sends it;
\* Qclass is dns.ClassINET | 1<<15
NewQuery(id, name) ==
    [Id |-> id, Name |-> name, Qtype |-> "PTR", Qclass |-> 1 + 32768,
     dst |-> mdnsAddr4]

\* m.Pack(): the codec's outcome
PackErr(outcome) == IF outcome = "packfail" THEN "EncodingError" ELSE "nil"

\* conn.WriteTo: a closed socket refuses the write
WriteToErr(outcome, isClosed) ==
    IF isClosed THEN "ErrClosed"
    ELSE IF outcome = "iofail" THEN "IOError" ELSE "nil"

\* Pack, then WriteTo unless Pack failed
QueryErr(outcome, isClosed) ==
    IF PackErr(outcome) # "nil" THEN PackErr(outcome)
    ELSE WriteToErr(outcome, isClosed)

\* Fails with the test after WriteTo left out
FailsOnlyEncoding(e) == e = "EncodingError"

\* the tests err != nil that end query
Fails(e) == e # "nil"

\* conn.ReadFrom with no datagram delivered
ReadFromErr(isClosed) == IF isClosed THEN "ErrClosed" ELSE "IOError"

\* OnReadErr without the test errors.Is(err, net.ErrClosed)
OnReadErrNoClosedTest(e) == e

\* what query returns when ReadFrom gave the error e
OnReadErr(e) == IF e = "ErrClosed" THEN "nil" ELSE e

\* ConnClose with the call of conn.Close() left out
ConnCloseForgotten == FALSE

\* the effect of conn.Close() on the socket
ConnClose == TRUE

\* Seen with a lookup that never finds the name
SeenNever(name, set) == FALSE

\* the services map lookup
Seen(name, set) == name \in set

\* Route with the continue of line 115 left out: every message is assembled
RouteAllAssemble(id, key) == "assemble"

\* Route with the test always true: no message is assembled
RouteAllEnum(id, key) == "enum"

\* Route with the two branches exchanged
RouteInverted(id, key) == IF id = key THEN "assemble" ELSE "enum"

\* the test msg.Id == servicesQueryID
Route(id, key) == IF id = key THEN "enum" ELSE "assemble"

\* Dispatch with the continue of line 83 left out
DispatchAfterError(d, key) == IF d.Id = key THEN "enum" ELSE "assemble"

\* where a datagram goes once Unpack has returned
Dispatch(d, key) == IF ~d.ok THEN "read" ELSE Route(d.Id, key)

\* log.Printf("bad response from %v: %v", addr, err)
LogLine(addr, e) == "bad response from " \o addr \o ": " \o e

\* AssembleRR that keeps the first value of every field
AssembleRRFirstWins(acc, rr) ==
    CASE rr.Type = "PTR" ->
            LET svcParts == Split(Trim(rr.Name, "."), ".")
                named    == IF acc.name # "" THEN acc
                            ELSE [acc EXCEPT !.name = TrimSuffix(rr.Ptr, "." \o rr.Name)]
            IN  IF Len(svcParts) = 3 /\ svcParts[3] = "local" /\ acc.service = ""
                THEN [named EXCEPT !.service = Trim(svcParts[1], "_"),
                                   !.proto = Trim(svcParts[2], "_")]
                ELSE named
      [] rr.Type = "SRV" /\ acc.host = "" ->
            [acc EXCEPT !.host = TrimSuffix(rr.Target, ".") \o ":" \o Itoa(rr.Port)]
      [] OTHER -> acc

\* one record of the loop of line 126 applied to the accumulator
AssembleRR(acc, rr) ==
    CASE rr.Type = "PTR" ->
            LET svcParts == Split(Trim(rr.Name, "."), ".")
                named    == [acc EXCEPT !.name = TrimSuffix(rr.Ptr, "." \o rr.Name)]
            IN  IF Len(svcParts) = 3 /\ svcParts[3] = "local"
                THEN [named EXCEPT !.service = Trim(svcParts[1], "_"),
                                   !.proto = Trim(svcParts[2], "_")]
                ELSE named
      [] rr.Type = "SRV" ->
            [acc EXCEPT !.host = TrimSuffix(rr.Target, ".") \o ":" \o Itoa(rr.Port)]
      [] rr.Type = "A" ->
            [acc EXCEPT !.addrs = Append(acc.addrs, IP4String(rr.IP))]
      [] rr.Type = "AAAA" ->
            [acc EXCEPT !.addrs = Append(acc.addrs, IP6String(rr.IP))]
      [] OTHER -> acc

\* EmptyAcc that holds the values of an earlier response
EmptyAccStale ==
    [name |-> "My Printer", host |-> "printer.local:631", service |-> "http",
     proto |-> "tcp", addrs |-> <<"192.168.1.5">>]

\* the variables of lines 118-124
EmptyAcc == [name |-> "", host |-> "", service |-> "", proto |-> "", addrs |-> <<>>]

RECURSIVE AssembleFrom(_, _, _)
AssembleFrom(recs, k, acc) ==
    IF k > Len(recs) THEN acc
    ELSE AssembleFrom(recs, k + 1, AssembleRR(acc, recs[k]))

\* the loop over append(msg.Answer, msg.Extra...)
Assembled(d) == AssembleFrom(d.Answer \o d.Extra, 1, EmptyAcc)

\* Line with the service label before the protocol label
LineServiceFirst(acc) ==
    acc.service \o "\t" \o acc.proto \o "\t" \o acc.host \o "\t" \o acc.name \o "\n"

\* Line with the addresses collected as a fifth field
LineWithAddrs(acc) ==
    acc.proto \o "\t" \o acc.service \o "\t" \o acc.host \o "\t" \o acc.name
        \o "\t" \o Join(acc.addrs, ",") \o "\n"

\* fmt.Printf("%s\t%s\t%s\t%s\n", proto, service, host, name)
Line(acc) ==
    acc.proto \o "\t" \o acc.service \o "\t" \o acc.host \o "\t" \o acc.name \o "\n"

\* the line of every datagram of the model
LineOf == [d \in Datagrams \cup AsmDatagrams |-> Line(Assembled(d))]

\* Emit that puts the new line first
EmitFirst(stream, line) == <<line>> \o stream

\* standard output after one more line
Emit(stream, line) == Append(stream, line)

(***************************************************************************)
(* The goroutine running query.  A step holds at most one operation on     *)
(* the socket, the only object the two goroutines share.                   *)
(***************************************************************************)
Outcomes == {"ok", "packfail", "iofail"}

\* query returns e
Return(e) ==
    /\ ret' = e
    /\ gpc' = "done"

\* continue: the next turn of the for loop of line 71
Continue ==
    /\ gpc' = "read"
    /\ msg' = NoMsg
    /\ i' = 0
    /\ err' = "nil"

\* net.ListenPacket and the go statement
Listen ==
    /\ gpc = "listen" /\ ret = "running"
    /\ \E fail \in BOOLEAN :
        LET e == IF fail THEN "ListenError" ELSE "nil"
        IN  /\ err' = e
            /\ IF Fails(e)
               THEN Return(e) /\ wpc' = wpc
               ELSE gpc' = "bootstrap" /\ wpc' = "wait" /\ ret' = ret
    /\ UNCHANGED <<timeout, ctxDone, closed, servicesQueryID, services, msg, i,
                   sent, out, logs, history>>

\* the bootstrap query: dns.Id, Pack, WriteTo
Bootstrap ==
    /\ gpc = "bootstrap" /\ ret = "running"
    /\ \E id \in IDs, outcome \in Outcomes :
        LET e == QueryErr(outcome, closed)
        IN  /\ servicesQueryID' = id
            /\ err' = e
            /\ IF Fails(e)
               THEN Return(e) /\ sent' = sent
               ELSE /\ sent' = IF e = "nil" THEN Append(sent, NewQuery(id, EnumName))
                                            ELSE sent
                    /\ gpc' = "read"
                    /\ ret' = ret
    /\ UNCHANGED <<ctxVars, services, msg, i, out, logs, history>>

\* rr.Ptr of the PTR records of a section
PtrTargets(recs) == {recs[k].Ptr : k \in {j \in 1..Len(recs) : recs[j].Type = "PTR"}}

\* a datagram that adds nothing to sent, out, logs or services
Quiet(d) == d.ok /\ d.Id = servicesQueryID /\ d.Answer = <<>>

\* conn.ReadFrom delivers the datagram d
ReadDatagram(d) ==
    /\ gpc = "read" /\ ret = "running"
    /\ ~closed
    /\ IF nread < MaxRecv THEN nread' = nread + 1 ELSE Quiet(d) /\ nread' = nread
    /\ targets' = IF d.ok /\ d.Id = servicesQueryID
                  THEN targets \cup PtrTargets(d.Answer) ELSE targets
    /\ nonEnum' = IF d.ok /\ d.Id # servicesQueryID
                  THEN Append(nonEnum, <<d.Answer, d.Extra>>) ELSE nonEnum
    /\ msg' = d
    /\ err' = "nil"
    /\ gpc' = "unpack"
    /\ UNCHANGED <<ctxVars, servicesQueryID, services, i, ret, sent, out, logs>>

\* conn.ReadFrom finds the socket closed
ReadClosed ==
    /\ gpc = "read" /\ ret = "running"
    /\ closed
    /\ err' = ReadFromErr(closed)
    /\ Return(OnReadErr(err'))
    /\ UNCHANGED <<ctxVars, servicesQueryID, services, msg, i, sent, out, logs,
                   history>>

\* conn.ReadFrom fails on the open socket
ReadError ==
    /\ gpc = "read" /\ ret = "running"
    /\ ~closed
    /\ err' = ReadFromErr(closed)
    /\ Return(OnReadErr(err'))
    /\ UNCHANGED <<ctxVars, servicesQueryID, services, msg, i, sent, out, logs,
                   history>>

\* msg.Unpack, the log line of a failure, and the test of msg.Id
Unpack ==
    /\ gpc = "unpack" /\ ret = "running"
    /\ logs' = IF msg.ok THEN logs
               ELSE Append(logs, LogLine(msg.addr, "DecodingError"))
    /\ LET to == Dispatch(msg, servicesQueryID)
       IN  IF to = "enum" /\ Len(msg.Answer) > 0
           THEN gpc' = "enum" /\ i' = 1 /\ UNCHANGED <<msg, err>>
           ELSE IF to = "assemble"
           THEN gpc' = "assemble" /\ UNCHANGED <<msg, i, err>>
           ELSE Continue
    /\ UNCHANGED <<ctxVars, servicesQueryID, services, ret, sent, out, history>>

\* one turn of the loop over msg.Answer
EnumStep ==
    /\ gpc = "enum" /\ ret = "running"
    /\ LET rr   == msg.Answer[i]
           next == IF i < Len(msg.Answer)
                   THEN i' = i + 1 /\ UNCHANGED <<gpc, msg, err>>
                   ELSE Continue
       IN  IF rr.Type # "PTR" \/ Seen(rr.Ptr, services)
           THEN next /\ UNCHANGED <<services, sent, ret>>
           ELSE \E id \in IDs, outcome \in Outcomes :
                  LET e == QueryErr(outcome, closed)
                  IN  /\ services' = services \cup {rr.Ptr}
                      /\ IF Fails(e)
                         THEN Return(e) /\ err' = e /\ UNCHANGED <<sent, msg, i>>
                         ELSE /\ sent' = IF e = "nil"
                                         THEN Append(sent, NewQuery(id, rr.Ptr))
                                         ELSE sent
                              /\ next
                              /\ ret' = ret
    /\ UNCHANGED <<ctxVars, servicesQueryID, out, logs, history>>

\* the record assembler and its Printf
Assemble ==
    /\ gpc = "assemble" /\ ret = "running"
    /\ out' = Emit(out, LineOf[msg])
    /\ Continue
    /\ UNCHANGED <<ctxVars, servicesQueryID, services, ret, sent, logs, history>>

(***************************************************************************)
(* The context and the goroutine that waits for it.  Once query has        *)
(* returned main ends the process, and with it this goroutine.             *)
(***************************************************************************)
\* HasDeadline with the test of line 32 left out
HasDeadlineAlways(t) == TRUE

\* main wraps the context in context.WithTimeout
HasDeadline(t) == t # 0

\* the deadline of context.WithTimeout passes; there is none when timeout = 0
DeadlineFire ==
    /\ HasDeadline(timeout) /\ ~ctxDone /\ ret = "running"
    /\ ctxDone' = TRUE
    /\ UNCHANGED <<timeout, closed, gpc, wpc, servicesQueryID, services, msg, i,
                   err, ret, sent, out, logs, history>>

\* WatcherClose that also empties the services map
WatcherCloseResets ==
    /\ wpc = "wait" /\ ctxDone /\ ret = "running"
    /\ closed' = ConnClose
    /\ wpc' = "done"
    /\ services' = {}
    /\ UNCHANGED <<timeout, ctxDone, gpc, servicesQueryID, msg, i,
                   err, ret, sent, out, logs, history>>

\* <-ctx.Done() returns and conn.Close() is called
WatcherClose ==
    /\ wpc = "wait" /\ ctxDone /\ ret = "running"
    /\ closed' = ConnClose
    /\ wpc' = "done"
    /\ UNCHANGED <<timeout, ctxDone, gpc, servicesQueryID, services, msg, i,
                   err, ret, sent, out, logs, history>>

\* the exit status main leaves: log.Fatalf exits with 1
ExitStatus(r) == IF r = "nil" THEN 0 ELSE 1

(***************************************************************************)
(* Specifications.                                                         *)
(***************************************************************************)
\* the steps of query that need nothing from outside
Program ==
    \/ Listen
    \/ Bootstrap
    \/ ReadClosed
    \/ Unpack
    \/ EnumStep
    \/ Assemble

Next ==
    \/ Listen
    \/ Bootstrap
    \/ \E d \in Datagrams : ReadDatagram(d)
    \/ ReadClosed
    \/ ReadError
    \/ Unpack
    \/ EnumStep
    \/ Assemble
    \/ DeadlineFire
    \/ WatcherClose

Spec == Init /\ [][Next]_vars

\* the record assembler alone: query has sent the bootstrap query with ID 0 and
\* reads responses to follow-up queries
AsmInit ==
    /\ timeout = 0
    /\ ctxDone = FALSE
    /\ closed = FALSE
    /\ gpc = "read"
    /\ wpc = "wait"
    /\ servicesQueryID = 0
    /\ services = {}
    /\ msg = NoMsg
    /\ i = 0
    /\ err = "nil"
    /\ ret = "running"
    /\ sent = <<NewQuery(0, EnumName)>>
    /\ out = <<>>
    /\ logs = <<>>
    /\ nread = 0
    /\ targets = {}
    /\ nonEnum = <<>>

AsmNext ==
    \/ \E d \in AsmDatagrams : ReadDatagram(d)
    \/ Unpack
    \/ Assemble

AsmSpec == AsmInit /\ [][AsmNext]_vars

\* both goroutines are scheduled and time passes; nothing obliges a datagram
\* to arrive
FairSpec ==
    /\ Init /\ [][Next]_vars
    /\ WF_vars(Program)
    /\ WF_vars(WatcherClose)
    /\ WF_vars(DeadlineFire)

(***************************************************************************)
(* Properties.                                                             *)
(***************************************************************************)
\* positions in sent of the follow-up queries for the name n
FollowUps(n) == {k \in 2..Len(sent) : sent[k].Name = n}

\* the query goroutine is between two turns of its loop, or left it by Closed
AtLoopTop == gpc = "read" \/ ret = "nil"

\* C1: every PTR target of the enumeration responses read gets exactly one
\* follow-up query once the responses are processed, never more than one at
\* any time, and no other name gets one.
C1_OneFollowUpPerTarget ==
    /\ \A k \in 2..Len(sent) : sent[k].Name \in targets
    /\ \A n \in targets : Cardinality(FollowUps(n)) <= 1
    /\ AtLoopTop => \A n \in targets : Cardinality(FollowUps(n)) = 1

\* a second datagram is an enumeration response whose first answer names a
\* service type that an earlier response named and that was queried once
C1_Witness ==
    /\ gpc = "enum" /\ i = 1 /\ nread = 2
    /\ msg.Answer[1].Type = "PTR"
    /\ msg.Answer[1].Ptr \in services
    /\ Cardinality(FollowUps(msg.Answer[1].Ptr)) = 1

\* C2: while a decoded message whose Id is the enumeration key is processed,
\* standard output does not change.
C2_EnumerationPrintsNothing ==
    [][(msg.ok /\ msg.Id = servicesQueryID) => out' = out]_vars

\* an enumeration response carrying PTR, A, SRV, TXT and AAAA records has been
\* processed and nothing was printed
C2_Witness ==
    /\ gpc = "read" /\ IppType \in targets /\ IppType \in services
    /\ out = <<>>

\* the fields of an output line
Fields(line) == Split(TrimSuffix(line, "\n"), "\t")

HasType(recs, t) == \E k \in 1..Len(recs) : recs[k].Type = t

\* C3: between two turns of the loop there is exactly one output line per
\* decoded message whose Id differs from the enumeration key; the line has four
\* fields, and host:port is empty without an SRV record, the other three
\* without a PTR record.
C3_OneLinePerOtherMessage ==
    AtLoopTop =>
        /\ Len(out) = Len(nonEnum)
        /\ \A k \in 1..Len(out) :
            LET recs == nonEnum[k][1] \o nonEnum[k][2]
                f    == Fields(out[k])
            IN  /\ Len(f) = 4
                /\ SubSeq(out[k], Len(out[k]), Len(out[k])) = "\n"
                /\ ~HasType(recs, "PTR") => f[1] = "" /\ f[2] = "" /\ f[4] = ""
                /\ ~HasType(recs, "SRV") => f[3] = ""

\* a message without records and a message with several PTR records have each
\* given one line
C3_Witness ==
    /\ gpc = "read" /\ Len(out) = 2
    /\ \E k \in 1..2 : nonEnum[k] = << <<>>, <<>> >> /\ out[k] = "\t\t\t\n"
    /\ \E k \in 1..2 : Len(nonEnum[k][1]) = 3

\* C4: the step that finds the datagram undecodable adds one log line naming
\* the sender, prints nothing, sends nothing, leaves services alone and goes
\* on with the next turn of the loop.
C4_MalformedLoggedAndSkipped ==
    [][(gpc = "unpack" /\ ~msg.ok /\ gpc' # gpc) =>
          /\ Len(logs') = Len(logs) + 1
          /\ SubSeq(logs', 1, Len(logs)) = logs
          /\ HasSuffix(TrimSuffix(logs'[Len(logs')], ": DecodingError"),
                       " " \o msg.addr)
          /\ UNCHANGED <<out, sent, services>>
          /\ ret' = "running"
          /\ gpc' = "read"]_vars

\* after a malformed datagram was logged a later datagram is assembled
C4_Witness ==
    /\ gpc = "assemble" /\ Len(logs) = 1 /\ nread = 2

\* C5: with the socket closed and the query goroutine in ReadFrom, nothing is
\* printed or sent any more, the goroutine's next step returns nil (exit
\* status 0), and nothing changes after that.
C5_CloseDuringReceive ==
    [][/\ (closed /\ gpc = "read" /\ ret = "running") =>
            /\ UNCHANGED <<out, sent>>
            /\ gpc' # gpc => ret' = "nil" /\ ExitStatus(ret') = 0
       /\ ret = "nil" => UNCHANGED <<out, sent, ret>>]_vars

\* query returned nil on the closed socket after a line was printed
C5_Witness ==
    /\ ret = "nil" /\ closed /\ err = "ErrClosed" /\ Len(out) >= 1

\* C6: a run that ends on the error of the closed socket ends with exit
\* status 0, wherever the close fell.
C6_ClosedRunExitsClean ==
    (ret # "running" /\ err = "ErrClosed") => ExitStatus(ret) = 0

\* C7: no follow-up query carries the ID of the bootstrap query.
C7_BootstrapIdDistinct ==
    \A k \in 2..Len(sent) : sent[k].Id # servicesQueryID

\* C8: standard output is, line by line and in order, what the assembler makes
\* of the decodable non-enumeration datagrams read; at most the datagram in
\* hand is without its line, and none is when the next datagram is read.
C8_LinesInArrivalOrder ==
    /\ Len(out) <= Len(nonEnum)
    /\ Len(nonEnum) <= Len(out) + 1
    /\ gpc = "read" => Len(out) = Len(nonEnum)
    /\ \A k \in 1..Len(out) :
         out[k] = Line(Assembled([Answer |-> nonEnum[k][1], Extra |-> nonEnum[k][2]]))

\* two different messages have given their two lines
C8_Witness ==
    /\ gpc = "read" /\ Len(out) = 2 /\ out[1] # out[2]
    /\ nonEnum[1] # nonEnum[2]

\* the step leaves err an encoding error, a send error or a receive error
\* other than Closed
FatalStep ==
    \/ err' \in {"EncodingError", "IOError"}
    \/ err' = "ErrClosed" /\ gpc # "read"

\* C9: the step on which encoding, sending or receiving fails (Closed on
\* receive apart) makes query return that error without reading, sending or
\* printing, and nothing changes once query has returned.
C9_FatalErrorAborts ==
    [][/\ (ret = "running" /\ FatalStep) =>
            /\ ret' = err'
            /\ ExitStatus(ret') = 1
            /\ UNCHANGED <<out, sent, nread>>
       /\ ret # "running" => UNCHANGED <<ret, out, sent, logs, nread>>]_vars

\* query returned a send or receive error after a line was printed
C9_Witness ==
    /\ ret = "IOError" /\ Len(out) >= 1 /\ Len(sent) >= 2

\* C10: with a timeout other than zero query eventually returns, and once the
\* context is done the socket is eventually closed unless query returned first.
C10_DeadlineEndsRun ==
    /\ (timeout # 0) ~> (ret # "running")
    /\ ctxDone ~> (closed \/ ret # "running")

\* the run ended with the socket closed after MaxRecv datagrams or more
C10_Witness ==
    /\ timeout # 0 /\ closed /\ ret # "running" /\ nread = MaxRecv

\* C11: with a timeout of zero the context is never done, the socket is never
\* closed by the second goroutine, and query never returns nil: it runs on or
\* returns an error of ListenPacket, Pack, WriteTo or ReadFrom.
C11_NoDeadlineNoCleanEnd ==
    timeout = 0 =>
        /\ ~ctxDone /\ ~closed /\ wpc # "done"
        /\ ret \in {"running", "ListenError", "EncodingError", "IOError"}

\* without a deadline query is still reading after MaxRecv datagrams and a
\* printed line
C11_Witness ==
    /\ timeout = 0 /\ ret = "running" /\ gpc = "read" /\ wpc = "wait"
    /\ nread = MaxRecv /\ Len(out) >= 1

\* the response of the example: PTR, SRV and A, in this order
ExampleSections ==
    <<  <<PTR("_http._tcp.local.", "My Printer._http._tcp.local."),
          SRV("My Printer._http._tcp.local.", "printer.local.", 631),
          A("printer.local.", <<192, 168, 1, 5>>)>>, <<>>  >>

\* C12 as stated: the line of the example response is
\* http, empty, printer.local:631, My Printer.
C12_ExampleLineAsStated ==
    \A k \in 1..Len(out) :
        nonEnum[k] = ExampleSections =>
            out[k] = "http\t\tprinter.local:631\tMy Printer\n"

\* C12 amended: the line of the example response is
\* tcp, http, printer.local:631, My Printer: "_http._tcp.local." has the three
\* components _http, _tcp, local, so both labels are set.
C12_ExampleLine ==
    \A k \in 1..Len(out) :
        nonEnum[k] = ExampleSections =>
            out[k] = "tcp\thttp\tprinter.local:631\tMy Printer\n"

\* the line of the example response has been printed
C12_Witness ==
    \E k \in 1..Len(out) : nonEnum[k] = ExampleSections

\* the records of the k-th decoded message that is no enumeration response
Records(k) == nonEnum[k][1] \o nonEnum[k][2]

\* <<service label, protocol label>> of a subject name as the specification
\* words them: three non-empty components split at the dots, the last one
\* local, and the leading underscores of the first two removed
LabelsLeadingOnly(subject) ==
    LET parts == Split(TrimSuffix(subject, "."), ".")
    IN  IF /\ Len(parts) = 3
           /\ \A k \in 1..3 : parts[k] # ""
           /\ parts[3] = "local"
        THEN <<TrimLeft(parts[1], "_"), TrimLeft(parts[2], "_")>>
        ELSE <<"", "">>

\* C13: the line of a response holding a single PTR record has the labels of
\* the subject name with only the leading underscores removed when the name
\* has exactly three non-empty components ending in local, and empty labels
\* otherwise.  Line 132 and 133 trim the underscores at both ends.
C13_LabelsLeadingOnly ==
    \A k \in 1..Len(out) :
        (Len(Records(k)) = 1 /\ Records(k)[1].Type = "PTR") =>
            /\ Fields(out[k])[2] = LabelsLeadingOnly(Records(k)[1].Name)[1]
            /\ Fields(out[k])[1] = LabelsLeadingOnly(Records(k)[1].Name)[2]

\* the Deduplicator set, the enumeration key, the queries sent and the output
ProtocolState == <<services, servicesQueryID, sent, out>>

\* C14: the step that closes the socket leaves the services map, the
\* enumeration key, the queries sent and the output as they are; every step
\* that changes one of them is a step of the goroutine running query, at the
\* bootstrap, in the enumeration branch or at the Printf, and leaves the
\* context and the watcher as they are; once set, the enumeration key keeps
\* its value.
C14_OnlyQueryTouchesProtocolState ==
    [][ /\ (closed' # closed \/ (wpc' = "done" /\ wpc # "done")) =>
              UNCHANGED ProtocolState
        /\ ProtocolState' # ProtocolState =>
              /\ UNCHANGED ctxVars
              /\ gpc \in {"bootstrap", "enum", "assemble"}
              /\ (gpc' # gpc \/ i' # i)
        /\ servicesQueryID # NoId => servicesQueryID' = servicesQueryID ]_vars

\* the socket was closed by the watcher after a follow-up query and a line
C14_Witness ==
    /\ wpc = "done" /\ closed
    /\ servicesQueryID # NoId
    /\ services # {} /\ Len(sent) >= 2 /\ Len(out) >= 1

\* C15: every line is the one computed from the records of its own response
\* with all of name, host, service, proto and addrs empty at the first record,
\* so two responses with the same records print the same line whatever was
\* printed before them.
C15_LineFromOwnRecords ==
    \A k \in 1..Len(out) :
        /\ out[k] = Line(AssembleFrom(Records(k), 1,
                         [name |-> "", host |-> "", service |-> "",
                          proto |-> "", addrs |-> <<>>]))
        /\ \A j \in 1..Len(out) : Records(j) = Records(k) => out[j] = out[k]

\* a response with no PTR and no SRV record printed four empty fields after a
\* response with both had printed all four
C15_Witness ==
    /\ Len(out) = 2
    /\ HasType(Records(1), "PTR") /\ HasType(Records(1), "SRV")
    /\ \A f \in 1..4 : Fields(out[1])[f] # ""
    /\ ~HasType(Records(2), "PTR") /\ ~HasType(Records(2), "SRV")
    /\ out[2] = "\t\t\t\n"

\* C16: a turn of the loop over the answers of an enumeration response (a step
\* from the enumeration branch that moves the goroutine running query) takes
\* the answers one by one from the first to the last and looks at no other
\* record; a record that is not a PTR or whose target is in the services map
\* changes nothing; a PTR with a new target is put in the map and its
\* follow-up query is sent in the same turn, unless the send fails and query
\* returns the error; none prints or logs anything; and whenever the next
\* datagram can be read, the map holds exactly the PTR targets of the answer
\* sections read.
C16_EnumerationTurn ==
    /\ [](gpc = "read" => services = targets)
    /\ [][ /\ (gpc = "unpack" /\ gpc' = "enum") => i' = 1
           /\ (gpc = "enum" /\ <<gpc, i>>' # <<gpc, i>>) =>
                LET rr == msg.Answer[i]
                IN  /\ out' = out /\ logs' = logs
                    /\ (rr.Type # "PTR" \/ rr.Ptr \in services) =>
                          UNCHANGED <<services, sent, ret>>
                    /\ (rr.Type = "PTR" /\ rr.Ptr \notin services) =>
                          /\ services' = services \cup {rr.Ptr}
                          /\ ret' = "running" =>
                                \E id \in IDs :
                                    sent' = Append(sent,
                                        [Id |-> id, Name |-> rr.Ptr, Qtype |-> "PTR",
                                         Qclass |-> 32769, dst |-> "224.0.0.251:5353"])
                          /\ ret' # "running" =>
                                /\ sent' = sent
                                /\ ret' \in {"EncodingError", "IOError", "ErrClosed"}
                    /\ ret' = "running" =>
                          IF i < Len(msg.Answer)
                          THEN gpc' = "enum" /\ i' = i + 1 /\ msg' = msg
                          ELSE gpc' = "read" ]_vars

\* the last answer of a response with PTR answers for two new names, another
\* kind of answer and a PTR among the additional records was handled: two
\* follow-up queries in answer order, none for the additional record
C16_Witness ==
    /\ gpc = "read" /\ ret = "running" /\ nread = 1
    /\ services = {HttpType, IppType}
    /\ Len(sent) = 3
    /\ sent[2].Name = HttpType /\ sent[3].Name = IppType
    /\ out = <<>> /\ logs = <<>>

\* C17: whenever the goroutine running query is between two turns of its loop,
\* the names of the follow-up queries sent are the members of the services
\* map, one query each, after the one bootstrap query; no datagram is read
\* before the bootstrap query is sent; every query sent has one PTR question of
\* class INET with the unicast-response bit and goes to 224.0.0.251:5353; and
\* no step takes a name out of the services map.
C17_QueriesMatchServices ==
    /\ [](AtLoopTop =>
            /\ {sent[k].Name : k \in 2..Len(sent)} = services
            /\ Len(sent) = 1 + Cardinality(services))
    /\ [](nread > 0 =>
            /\ Len(sent) >= 1
            /\ sent[1].Name = "_services._dns-sd._udp.local."
            /\ sent[1].Id = servicesQueryID
            /\ \A k \in 2..Len(sent) : sent[k].Name # sent[1].Name)
    /\ [](\A k \in 1..Len(sent) :
            /\ sent[k].Qtype = "PTR"
            /\ sent[k].Qclass = 32768 + 1
            /\ sent[k].dst = "224.0.0.251:5353"
            /\ sent[k].dst # "[ff02::fb]:5353")
    /\ [][services \subseteq services']_vars

\* both datagrams were enumeration responses and three queries were sent: the
\* bootstrap and one for each of the two names in the services map
C17_Witness ==
    /\ gpc = "read" /\ ret = "running" /\ nread = 2
    /\ Cardinality(services) = 2
    /\ Len(sent) = 3
    /\ nonEnum = <<>>

\* C18: a decoded message whose Id differs from the enumeration key never
\* enters the enumeration branch, and the steps of query that handle it leave
\* the queries sent, the services map, the enumeration key, the log and the
\* result of query as they are; the second of them adds one line to the output.
C18_OtherMessageOnlyPrints ==
    /\ [](gpc = "enum" => msg.ok /\ msg.Id = servicesQueryID)
    /\ [][ (/\ msg.ok /\ msg.Id # servicesQueryID
            /\ gpc \in {"unpack", "assemble"} /\ gpc' # gpc) =>
               /\ UNCHANGED <<sent, services, servicesQueryID, logs, ret>>
               /\ gpc = "unpack" => gpc' = "assemble" /\ out' = out
               /\ gpc = "assemble" => gpc' = "read" /\ Len(out') = Len(out) + 1 ]_vars

\* a message with another Id whose answers hold PTR records for service types
\* never seen was printed: no query but the bootstrap, nothing in the map
C18_Witness ==
    /\ gpc = "read" /\ ret = "running" /\ nread = 1
    /\ Len(out) = 1
    /\ \E k \in 1..Len(nonEnum[1][1]) :
          /\ nonEnum[1][1][k].Type = "PTR"
          /\ nonEnum[1][1][k].Ptr \notin services
    /\ services = {} /\ Len(sent) = 1

\* the positions of the records of one type
Positions(recs, t) == {k \in 1..Len(recs) : recs[k].Type = t}

\* the three components of a subject name that ends in local, or <<>>
Components(subject) ==
    LET parts == Split(Trim(subject, "."), ".")
    IN  IF Len(parts) = 3 /\ parts[3] = "local" THEN parts ELSE <<>>

\* the positions of the PTR records whose subject name has such components
Conforming(recs) == {k \in Positions(recs, "PTR") : Components(recs[k].Name) # <<>>}

Last(S) == CHOOSE m \in S : \A k \in S : k <= m

\* C19: with the answers taken before the additional records, the fourth
\* field of a line comes from the last PTR record, the third from the last SRV
\* record, and the first two from the last PTR record whose subject name has
\* three components ending in local, wherever the other PTR records stand; a
\* field with no such record is empty.
C19_LastRecordWins ==
    \A k \in 1..Len(out) :
        LET recs == nonEnum[k][1] \o nonEnum[k][2]
            ptr  == Positions(recs, "PTR")
            srv  == Positions(recs, "SRV")
            conf == Conforming(recs)
        IN  /\ Fields(out[k])[4] =
                  IF ptr = {} THEN ""
                  ELSE TrimSuffix(recs[Last(ptr)].Ptr, "." \o recs[Last(ptr)].Name)
            /\ Fields(out[k])[3] =
                  IF srv = {} THEN ""
                  ELSE TrimSuffix(recs[Last(srv)].Target, ".") \o ":"
                          \o Itoa(recs[Last(srv)].Port)
            /\ Fields(out[k])[2] =
                  IF conf = {} THEN ""
                  ELSE Trim(Components(recs[Last(conf)].Name)[1], "_")
            /\ Fields(out[k])[1] =
                  IF conf = {} THEN ""
                  ELSE Trim(Components(recs[Last(conf)].Name)[2], "_")

\* a response with a PTR and an SRV among the answers and, among the
\* additional records, a PTR with four components and another SRV was printed
C19_Witness ==
    /\ Len(out) >= 1
    /\ Cardinality(Positions(nonEnum[1][1], "PTR")) = 1
    /\ Cardinality(Positions(nonEnum[1][2], "PTR")) = 1
    /\ Cardinality(Positions(Records(1), "SRV")) = 2
    /\ Conforming(Records(1)) = {1}
    /\ out[1] = "tcp\thttp\tscan.local:80\tOther\n"

IsPtrOrSrv(rr) == rr.Type \in {"PTR", "SRV"}

\* the records left when the A, AAAA and TXT records are taken out
WithoutAddrs(recs) == SelectSeq(recs, IsPtrOrSrv)

\* C20: two responses whose records are the same once their A, AAAA and TXT
\* records are taken out print the same line, and a line has four fields, none
\* of them for addresses.
C20_AddressesNeverPrinted ==
    \A k \in 1..Len(out) :
        /\ Len(Fields(out[k])) = 4
        /\ \A j \in 1..Len(out) :
              WithoutAddrs(Records(j)) = WithoutAddrs(Records(k)) => out[j] = out[k]

\* two responses with the same PTR and SRV records, the second with A, AAAA
\* and TXT records as well, printed the same line
C20_Witness ==
    /\ Len(out) = 2
    /\ WithoutAddrs(Records(1)) = Records(1) /\ Records(1) # <<>>
    /\ HasType(Records(2), "A") /\ HasType(Records(2), "AAAA")
    /\ HasType(Records(2), "TXT")
    /\ WithoutAddrs(Records(2)) = Records(1)
    /\ out[1] = out[2]

=============================================================================
